---- MODULE Spec2Model ----
(***************************************************************************)
(* Model of serial_grid.py: the settings resolver (the __main__ block) and *)
(* the Grid renderer (Grid.__init__ with its frame loop, Grid.plot_data).  *)
(*                                                                         *)
(* Numbers: colour components and the timeout are kept in tenths (1.0 is   *)
(* 10); sample values are integers; a normalised sample is the fraction    *)
(* <<numerator, denominator>>.                                             *)
(***************************************************************************)
EXTENDS Integers, Sequences, FiniteSets, TLC

VARIABLES
    pc,          \* position in the program
    settings,    \* the raw settings strings, as typed or read from the file
    baud, timeout, rows, cols, min_val, max_val, clarity,
    min_colour, max_colour,
    ser,         \* the serial port: "unopened", "open", "closed"
    closes,      \* number of calls of ser.close()
    mode, map_scale, map_offset, scale,
    window,      \* the 'Data' window: "none", "open", "destroyed"
    key,         \* the last value returned by cv2.waitKey
    npoll,       \* number of calls of cv2.waitKey
    nread,       \* number of calls of sio.readline
    discarded,   \* outcomes of the reads of the initial discard
    nplot,       \* number of calls of plot_data
    line,        \* the line read by the last call of plot_data
    last,        \* how the last call of plot_data ended
    frame,       \* the image in the window
    nshown,      \* number of calls of cv2.imshow
    stdout,      \* the last lifecycle message and the poll count at its print
    stderr,      \* the diagnostics of the last call of plot_data
    exc          \* the exception propagating out of the program, or "none"

vars == <<pc, settings, baud, timeout, rows, cols, min_val, max_val, clarity,
          min_colour, max_colour, ser, closes, mode, map_scale, map_offset,
          scale, window, key, npoll, nread, discarded, nplot, line, last,
          frame, nshown, stdout, stderr, exc>>

config == <<settings, baud, timeout, rows, cols, min_val, max_val, clarity,
            min_colour, max_colour>>
mapping == <<mode, map_scale, map_offset, scale>>
loopvars == <<key, npoll, nplot, line, last, frame, nshown, stdout, stderr>>

----------------------------------------------------------------------------
(* Bounds *)

MaxReads == 3    \* readline calls in one run

----------------------------------------------------------------------------
(* Class constants of Grid *)

EXIT_KEYS_noQ == {113, 27}
EXIT_KEYS == {113, 81, 27}
PAUSE_KEYS == {99, 112, 115}
COLOUR == 3
GREY == 1
DEFAULT == -1
UNSET == 0       \* self.mode before line 88 has run

----------------------------------------------------------------------------
(* The inputs *)

\* the numeric fields of a settings line
NumericSettings ==
    { [baud |-> "9600", timeout |-> "1", rows |-> "2", cols |-> "2",
       min_val |-> "0", max_val |-> "100", clarity |-> "1"],
      [baud |-> "fast", timeout |-> "", rows |-> "1", cols |-> "2",
       min_val |-> "50", max_val |-> "100", clarity |-> "ten"],
      [baud |-> "115200", timeout |-> "0.1", rows |-> "2", cols |-> "1",
       min_val |-> "0", max_val |-> "100", clarity |-> "2"],
      [baud |-> "9600", timeout |-> "1", rows |-> "2.0", cols |-> "2",
       min_val |-> "0", max_val |-> "100", clarity |-> "1"],
      [baud |-> "9600", timeout |-> "1", rows |-> "2", cols |-> "x",
       min_val |-> "0", max_val |-> "100", clarity |-> "1"],
      [baud |-> "9600", timeout |-> "1", rows |-> "2", cols |-> "2",
       min_val |-> "lo", max_val |-> "100", clarity |-> "1"],
      [baud |-> "9600", timeout |-> "1", rows |-> "2", cols |-> "2",
       min_val |-> "0", max_val |-> "", clarity |-> "1"] }

\* the colour fields of a settings line
ColourInputs ==
    {"(0,0,0)", "(1,1)", "(1,1,1)", "(0,1,1)", "(1,)", "blue",
     "0.0", "1.0", "0.5", "0", "1"}

\* the lines the stream delivers, as the tokens between the tabs of the
\* stripped line; <<"">> is the empty line of a read that timed out
Lines ==
    { <<"0", "50", "100", "25">>,
      <<"0", "50", "100">>,
      <<"0", "x", "50", "100", "25">>,
      <<"-5", "50", "100", "600">>,
      <<"50", "100">>,
      <<"x", "50", "", "100">>,
      <<"">> }

\* what one call of readline does: it returns a line, or raises
ReadErrors == {"UnicodeDecodeError", "SerialException"}
ReadOutcomes ==
    { [err |-> "none", tokens |-> l] : l \in Lines }
    \cup { [err |-> e, tokens |-> <<>>] : e \in ReadErrors }

NoLine == [err |-> "none", tokens |-> <<>>]

\* what cv2.waitKey returns: -1 without a key press, else the key code
\* (q, Q, Escape, c, p, s, a, and q with a modifier bit set)
Keys == {0 - 1, 113, 81, 27, 99, 112, 115, 97, 369}

----------------------------------------------------------------------------
(* Python values of the colour variables: a string (the raw input), an     *)
(* int, a float, or a tuple. v holds the components in tenths.             *)

Str(s) == [kind |-> "str", v |-> <<>>, s |-> s]
Float(t) == [kind |-> "float", v |-> <<t>>, s |-> ""]
PyInt(t) == [kind |-> "int", v |-> <<t>>, s |-> ""]
Tuple(t) == [kind |-> "tuple", v |-> t, s |-> ""]

IsScalar(c) == c.kind \in {"int", "float"}

\* Python ==, on colour values
PyEq(a, b) ==
    \/ IsScalar(a) /\ IsScalar(b) /\ a.v = b.v
    \/ a.kind = "tuple" /\ b.kind = "tuple" /\ a.v = b.v
    \/ a.kind = "str" /\ b.kind = "str" /\ a.s = b.s

\* a parse result
Ok(x) == [ok |-> TRUE, val |-> x]
Fail == [ok |-> FALSE, val |-> 0]

\* int(s)
ParseIntLenient(s) ==
    CASE s = "9600" -> Ok(9600)
      [] s = "115200" -> Ok(115200)
      [] s = "0" -> Ok(0)
      [] s = "1" -> Ok(1)
      [] s \in {"2", "2.0"} -> Ok(2)
      [] s = "3" -> Ok(3)
      [] s = "50" -> Ok(50)
      [] s = "100" -> Ok(100)
      [] OTHER -> Fail
ParseInt(s) ==
    CASE s = "9600" -> Ok(9600)
      [] s = "115200" -> Ok(115200)
      [] s = "0" -> Ok(0)
      [] s = "1" -> Ok(1)
      [] s = "2" -> Ok(2)
      [] s = "3" -> Ok(3)
      [] s = "50" -> Ok(50)
      [] s = "100" -> Ok(100)
      [] OTHER -> Fail      \* "", "x", "fast", "ten", "2.0", "0.1": ValueError

\* float(s), for the sample values and min_val/max_val (whole numbers)
ParseFloat(s) ==
    CASE s = "0" -> Ok(0)
      [] s = "1" -> Ok(1)
      [] s = "2" -> Ok(2)
      [] s = "25" -> Ok(25)
      [] s = "50" -> Ok(50)
      [] s = "100" -> Ok(100)
      [] s = "600" -> Ok(600)
      [] s = "-5" -> Ok(0 - 5)
      [] s = "2.0" -> Ok(2)
      [] OTHER -> Fail      \* "", "x", "lo": ValueError

\* float(s), for the timeout, in tenths of a second
ParseTenths(s) ==
    CASE s = "1" -> Ok(10)
      [] s = "0.1" -> Ok(1)
      [] s = "2.0" -> Ok(20)
      [] OTHER -> Fail

\* eval(s), for the colour fields
Eval(s) ==
    CASE s = "0.0" -> Ok(Float(0))
      [] s = "1.0" -> Ok(Float(10))
      [] s = "0.5" -> Ok(Float(5))
      [] s = "0" -> Ok(PyInt(0))
      [] s = "1" -> Ok(PyInt(10))
      [] s = "(0,0,0)" -> Ok(Tuple(<<0, 0, 0>>))
      [] s = "(1,1,1)" -> Ok(Tuple(<<10, 10, 10>>))
      [] s = "(0,1,1)" -> Ok(Tuple(<<0, 10, 10>>))
      [] s = "(1,1)" -> Ok(Tuple(<<10, 10>>))
      [] s = "(1,)" -> Ok(Tuple(<<10>>))
      [] OTHER -> [ok |-> FALSE, val |-> Str(s)]   \* "blue", "": raises

----------------------------------------------------------------------------
(* numpy arrays of colour components: shape 0 is a 0-d array (a scalar),   *)
(* shape n > 0 a vector of n components                                    *)

NoArr == [shape |-> 0 - 1, v |-> <<>>]

Shape(c) == IF IsScalar(c) THEN 0 ELSE Len(c.v)

Elem(c, i) == IF Len(c.v) = 1 THEN c.v[1] ELSE c.v[i]

Larger(a, b) == IF a >= b THEN a ELSE b

\* numpy broadcasting of two operands
Broadcastable(a, b) ==
    \/ Shape(a) \in {0, 1}
    \/ Shape(b) \in {0, 1}
    \/ Shape(a) = Shape(b)

BShape(a, b) == Larger(Shape(a), Shape(b))

AsArray(c) == [shape |-> Shape(c), v |-> c.v]

\* np.array(max_colour) - min_colour
Subtract(maxc, minc) ==
    LET n == BShape(maxc, minc)
    IN [shape |-> n,
        v |-> [i \in 1..Larger(n, 1) |-> Elem(maxc, i) - Elem(minc, i)]]

\* lines 88-90: the mapping mode
ModeOf(minc, maxc) ==
    IF minc.kind = "int"
    THEN IF minc.v = <<0>> /\ IsScalar(maxc) /\ maxc.v = <<10>>
         THEN DEFAULT ELSE GREY
    ELSE COLOUR

\* lines 92-95: what the set-up of the mapping raises ("none": nothing).
\* np.array of a list of two differently shaped items raises ValueError in
\* numpy >= 1.24 and builds an object array in older versions.
MapError(minc, maxc) ==
    IF ModeOf(minc, maxc) = DEFAULT THEN {"none"}
    ELSE IF minc.kind = "str" THEN {"TypeError"}
    ELSE IF ~Broadcastable(maxc, minc) THEN {"ValueError"}
    ELSE IF ModeOf(minc, maxc) = COLOUR /\ BShape(maxc, minc) # Shape(minc)
         THEN {"ValueError", "none"}
    ELSE {"none"}

\* lines 111-115: what the validity check raises
CheckError(m, minc, maxc) ==
    IF m = COLOUR /\ IsScalar(minc) THEN "TypeError"      \* len() of a float
    ELSE IF m = COLOUR /\ Len(minc.v) # 3 THEN "Exception"
    ELSE IF PyEq(minc, maxc) THEN "AssertionError"
    ELSE "none"

----------------------------------------------------------------------------
(* The settings resolver: the __main__ block *)

Settings ==
    { [baud |-> n.baud, timeout |-> n.timeout, rows |-> n.rows,
       cols |-> n.cols, min_val |-> n.min_val, max_val |-> n.max_val,
       clarity |-> n.clarity, min_colour |-> a, max_colour |-> b] :
      n \in NumericSettings, a \in ColourInputs, b \in ColourInputs }

NoFrame ==
    [height |-> 0, width |-> 0, channels |-> 0, grid |-> <<0, 0>>,
     data |-> <<>>, pix |-> <<>>]

Init ==
    /\ pc = "numbers"
    /\ settings \in Settings
    /\ baud = 0 /\ timeout = 0 /\ rows = 0 /\ cols = 0
    /\ min_val = 0 /\ max_val = 0 /\ clarity = 0
    /\ min_colour = Str(settings.min_colour)
    /\ max_colour = Str(settings.max_colour)
    /\ ser = "unopened" /\ closes = 0
    /\ mode = UNSET /\ map_scale = NoArr /\ map_offset = NoArr
    /\ scale = <<0, 0>>
    /\ window = "none"
    /\ key = 0 - 1 /\ npoll = 0 /\ nread = 0 /\ discarded = <<>>
    /\ nplot = 0 /\ line = NoLine /\ last = "none"
    /\ frame = NoFrame /\ nshown = 0
    /\ stdout = [msg |-> "", poll |-> 0]
    /\ stderr = <<>>
    /\ exc = "none"

\* lines 214-228: baud and timeout fall back, rows, cols, min_val and max_val
\* do not
ResolveNumbers ==
    /\ pc = "numbers"
    /\ LET b == ParseInt(settings.baud)
           t == ParseTenths(settings.timeout)
           r == ParseInt(settings.rows)
           c == ParseInt(settings.cols)
           lo == ParseFloat(settings.min_val)
           hi == ParseFloat(settings.max_val)
       IN /\ baud' = IF b.ok THEN b.val ELSE 9600
          /\ timeout' = IF t.ok THEN t.val ELSE 50
          /\ rows' = IF r.ok THEN r.val ELSE rows
          /\ cols' = IF r.ok /\ c.ok THEN c.val ELSE cols
          /\ min_val' = IF r.ok /\ c.ok /\ lo.ok THEN lo.val ELSE min_val
          /\ max_val' = IF r.ok /\ c.ok /\ lo.ok /\ hi.ok
                        THEN hi.val ELSE max_val
          /\ IF r.ok /\ c.ok /\ lo.ok /\ hi.ok
             THEN pc' = "colours" /\ exc' = exc
             ELSE pc' = "done" /\ exc' = "ValueError"
    /\ UNCHANGED <<settings, clarity, min_colour, max_colour, ser, closes,
                   mapping, window, nread, discarded, loopvars>>

\* lines 229-233: a min_colour that does not evaluate is reported, and the
\* variable keeps the input string
ResolveMin(raw, cur) ==
    IF Eval(raw).ok THEN Eval(raw).val ELSE cur

\* lines 234-242
ResolveMax(raw, minc) ==
    IF Eval(raw).ok THEN Eval(raw).val
    ELSE IF minc.kind = "float" THEN Float(10)
    ELSE Tuple(<<10, 10, 10>>)

ResolveColours ==
    /\ pc = "colours"
    /\ min_colour' = ResolveMin(settings.min_colour, min_colour)
    /\ max_colour' = ResolveMax(settings.max_colour, min_colour')
    /\ pc' = "clarity"
    /\ UNCHANGED <<settings, baud, timeout, rows, cols, min_val, max_val,
                   clarity, ser, closes, mapping, window, nread, discarded,
                   loopvars, exc>>

\* lines 244-248
ResolveClarity ==
    /\ pc = "clarity"
    /\ clarity' = IF ParseInt(settings.clarity).ok
                  THEN ParseInt(settings.clarity).val ELSE 10
    /\ pc' = "open"
    /\ UNCHANGED <<settings, baud, timeout, rows, cols, min_val, max_val,
                   min_colour, max_colour, ser, closes, mapping, window,
                   nread, discarded, loopvars, exc>>

\* line 251: serial.Serial(...) opens the port, or raises
OpenSerial ==
    /\ pc = "open"
    /\ \/ ser' = "open" /\ pc' = "grid" /\ exc' = exc
       \/ ser' = ser /\ pc' = "done" /\ exc' = "SerialException"
    /\ UNCHANGED <<config, closes, mapping, window, nread, discarded,
                   loopvars>>

----------------------------------------------------------------------------
(* Grid.__init__ up to the frame loop *)

\* lines 82-97: nothing here is inside the try statement of line 109
GridSetup ==
    /\ pc = "grid"
    /\ mode' = ModeOf(min_colour, max_colour)
    /\ \E e \in MapError(min_colour, max_colour) :
         /\ map_scale' = IF mode' = DEFAULT \/ e = "TypeError"
                            \/ ~Broadcastable(max_colour, min_colour)
                         THEN map_scale
                         ELSE Subtract(max_colour, min_colour)
         /\ map_offset' = IF map_scale' = NoArr THEN map_offset
                          ELSE AsArray(min_colour)
         /\ IF e = "none"
            THEN /\ scale' = <<clarity * rows, clarity * cols>>
                 /\ pc' = "discard" /\ exc' = exc
            ELSE /\ scale' = scale
                 /\ pc' = "done" /\ exc' = e
    /\ UNCHANGED <<config, ser, closes, window, nread, discarded, loopvars>>

\* lines 99-103: the first line is read and dropped; a decode error of the
\* read is answered with one more read, outside any handler
DiscardReadsNoRetry(r1, r2) == <<r1>>
DiscardReads(r1, r2) ==
    IF r1.err = "UnicodeDecodeError" THEN <<r1, r2>> ELSE <<r1>>

DiscardInitialLine ==
    /\ pc = "discard"
    /\ \E r1 \in ReadOutcomes, r2 \in ReadOutcomes :
         LET reads == DiscardReads(r1, r2)
             final == reads[Len(reads)]
         IN /\ discarded' = [i \in 1..Len(reads) |->
                               IF reads[i].err = "none" THEN "ok"
                               ELSE reads[i].err]
            /\ nread' = nread + Len(reads)
            /\ IF final.err = "none"
               THEN pc' = "window" /\ exc' = exc
               ELSE pc' = "done" /\ exc' = final.err
    /\ UNCHANGED <<config, ser, closes, mapping, window, loopvars>>

\* line 106
CreateWindow ==
    /\ pc = "window"
    /\ window' = "open"
    /\ pc' = "check"
    /\ UNCHANGED <<config, ser, closes, mapping, nread, discarded, loopvars,
                   exc>>

\* lines 109-115: the first statements of the try block
CheckColours ==
    /\ pc = "check"
    /\ LET e == CheckError(mode, min_colour, max_colour)
       IN IF e = "none"
          THEN pc' = "poll" /\ exc' = exc
          ELSE pc' = "finally" /\ exc' = e
    /\ UNCHANGED <<config, ser, closes, mapping, window, nread, discarded,
                   loopvars>>

----------------------------------------------------------------------------
(* Grid.plot_data *)

\* lines 153-158: the tokens float() accepts, in their order
DataZeroFill(tokens) ==
    [i \in 1..Len(tokens) |->
       IF ParseFloat(tokens[i]).ok THEN ParseFloat(tokens[i]).val ELSE 0]
Data(tokens) ==
    LET good == SelectSeq(tokens, LAMBDA t : ParseFloat(t).ok)
    IN [i \in 1..Len(good) |-> ParseFloat(good[i]).val]

\* lines 157-158: one diagnostic for each token float() rejects
ConvertMsgs(tokens) ==
    LET bad == SelectSeq(tokens, LAMBDA t : ~ParseFloat(t).ok)
    IN [i \in 1..Len(bad) |-> "convert"]

SeqMin(d) == CHOOSE x \in {d[i] : i \in 1..Len(d)} :
                 \A y \in {d[i] : i \in 1..Len(d)} : x <= y

SeqMax(d) == CHOOSE x \in {d[i] : i \in 1..Len(d)} :
                 \A y \in {d[i] : i \in 1..Len(d)} : x >= y

\* lines 161-168: the range warnings
RangeMsgs(d, lo, hi) ==
    (IF SeqMin(d) < lo THEN <<"below">> ELSE <<>>)
    \o (IF SeqMax(d) > hi THEN <<"above">> ELSE <<>>)

\* line 170: (data - min_val) / max_val, as the fraction <<num, den>>
NormaliseClamped(v, lo, hi) ==
    <<(IF v < lo THEN lo ELSE IF v > hi THEN hi ELSE v) - lo, hi>>
Normalise(v, lo, hi) == <<v - lo, hi>>

\* lines 170-171: reshape(rows, cols) of n values
CanReshapeAtLeast(n, r, c) == n >= r * c
CanReshape(n, r, c) == n = r * c

\* line 176: data * _map_scale broadcasts a rows x cols grid with a vector
\* of n components when one of the last dimensions is 1 or both are equal
GreyCols(c, n) ==
    IF n <= 1 \/ n = c THEN c ELSE IF c = 1 THEN n ELSE 0

\* x * s + o for the fraction x, s and o in tenths
Affine(x, s, o) == <<x[1] * s + o * x[2], x[2] * 10>>

\* lines 172-176: the mapped values, row-major, one tuple of channels for
\* each cell
Mapped(norm, m, r, c, sc, off) ==
    IF m = COLOUR
    THEN [i \in 1..Len(norm) |->
            [ch \in 1..3 |-> Affine(norm[i], sc.v[ch], off.v[ch])]]
    ELSE IF m = GREY
    THEN LET w == GreyCols(c, sc.shape)
         IN [i \in 1..(r * w) |->
               LET row == ((i - 1) \div w) + 1
                   col == ((i - 1) % w) + 1
                   src == (row - 1) * c + (IF c = 1 THEN 1 ELSE col)
                   k == IF sc.shape <= 1 THEN 1 ELSE col
               IN <<Affine(norm[src], sc.v[k], off.v[1])>>]
    ELSE [i \in 1..Len(norm) |-> <<norm[i]>>]

\* the outcome of one call of plot_data that reads r: the exception it
\* raises ("none": it returns), its diagnostics, and the image it shows
PlotResult(r) ==
    LET d == Data(r.tokens)
        conv == ConvertMsgs(r.tokens)
    IN IF r.err # "none"
       THEN [raised |-> r.err, msgs |-> <<>>, image |-> NoFrame]
       ELSE IF Len(d) = 0                       \* data.min() of no values
       THEN [raised |-> "ValueError", msgs |-> conv, image |-> NoFrame]
       ELSE IF ~CanReshape(Len(d), rows, cols)
       THEN [raised |-> "ValueError",
             msgs |-> conv \o RangeMsgs(d, min_val, max_val),
             image |-> NoFrame]
       ELSE IF mode = GREY /\ GreyCols(cols, map_scale.shape) = 0
       THEN [raised |-> "ValueError",
             msgs |-> conv \o RangeMsgs(d, min_val, max_val),
             image |-> NoFrame]
       ELSE LET norm == [i \in 1..Len(d) |->
                           Normalise(d[i], min_val, max_val)]
            IN [raised |-> "none",
                msgs |-> conv \o RangeMsgs(d, min_val, max_val),
                \* cv2.resize takes dsize as (width, height)
                image |-> [height |-> scale[2], width |-> scale[1],
                           channels |-> IF mode = COLOUR THEN 3 ELSE 1,
                           grid |-> <<rows,
                                      IF mode = GREY
                                      THEN GreyCols(cols, map_scale.shape)
                                      ELSE cols>>,
                           data |-> norm,
                           pix |-> Mapped(norm, mode, rows, cols,
                                          map_scale, map_offset)]]

----------------------------------------------------------------------------
(* The frame loop of Grid.__init__ *)

\* key & 0xFF
LowByte(k) == k % 256

\* line 137: the exceptions the loop answers with a message and continue
RecoverableOnlyDecode(e) == e \in {"UnicodeDecodeError"}
RecoverableAll(e) == TRUE
Recoverable(e) == e \in {"UnicodeDecodeError", "ValueError"}

\* lines 119-124: one key poll of the main loop and its branch
PollKey ==
    /\ pc = "poll"
    /\ \E k \in Keys :
         /\ key' = k
         /\ npoll' = npoll + 1
         /\ IF LowByte(k) \in EXIT_KEYS
            THEN /\ stdout' = [msg |-> "User quit application",
                               poll |-> npoll']
                 /\ pc' = "finally"
            ELSE IF LowByte(k) \in PAUSE_KEYS
            THEN /\ stdout' = [msg |-> "User paused", poll |-> npoll']
                 /\ pc' = "pause"
            ELSE /\ stdout' = stdout
                 /\ pc' = "plot"
    /\ UNCHANGED <<config, ser, closes, mapping, window, nread, discarded,
                   nplot, line, last, frame, nshown, stderr, exc>>

\* a pause loop that drains a line and polls before it tests the key
PauseLoopDraining ==
    /\ pc = "pause"
    /\ nread < MaxReads
    /\ nread' = nread + 1
    /\ npoll' = npoll + 1
    /\ \E k \in Keys :
         /\ key' = k
         /\ pc' = IF LowByte(k) \in PAUSE_KEYS THEN "plot"
                  ELSE IF LowByte(k) \in EXIT_KEYS THEN "finally"
                  ELSE "pause"
    /\ UNCHANGED <<config, ser, closes, mapping, window, discarded, nplot,
                   line, last, frame, nshown, stdout, stderr, exc>>

\* lines 125-134: the test of the pause loop, and one turn of its body
PauseLoop ==
    /\ pc = "pause"
    /\ IF LowByte(key) \notin PAUSE_KEYS
       THEN IF LowByte(key) \in EXIT_KEYS
            THEN /\ stdout' = [msg |-> "User quit application",
                               poll |-> npoll]
                 /\ pc' = "finally"
                 /\ UNCHANGED <<key, npoll, nread, exc>>
            ELSE /\ nread < MaxReads
                 /\ nread' = nread + 1
                 /\ stdout' = stdout
                 /\ \E r \in ReadOutcomes :
                      IF r.err # "none"
                      THEN /\ exc' = r.err
                           /\ pc' = "finally"
                           /\ UNCHANGED <<key, npoll>>
                      ELSE /\ \E k \in Keys : key' = k
                           /\ npoll' = npoll + 1
                           /\ pc' = "pause"
                           /\ exc' = exc
       ELSE /\ stdout' = [msg |-> "Display resumed", poll |-> npoll]
            /\ pc' = "plot"
            /\ UNCHANGED <<key, npoll, nread, exc>>
    /\ UNCHANGED <<config, ser, closes, mapping, window, discarded, nplot,
                   line, last, frame, nshown, stderr>>

\* plot_data taking its black level from the data
PlotDataAutoRange ==
    /\ pc = "plot"
    /\ nread < MaxReads
    /\ \E r \in ReadOutcomes :
         LET res == PlotResult(r)
         IN /\ nread' = nread + 1
            /\ nplot' = nplot + 1
            /\ line' = r
            /\ last' = IF res.raised = "none" THEN "ok" ELSE res.raised
            /\ IF res.raised = "none"
               THEN /\ frame' = res.image
                    /\ nshown' = nshown + 1
                    /\ stderr' = res.msgs
                    /\ pc' = "poll" /\ exc' = exc
               ELSE IF Recoverable(res.raised)
               THEN /\ stderr' = Append(res.msgs, res.raised)
                    /\ pc' = "poll" /\ exc' = exc
                    /\ UNCHANGED <<frame, nshown>>
               ELSE /\ stderr' = res.msgs
                    /\ pc' = "finally" /\ exc' = res.raised
                    /\ UNCHANGED <<frame, nshown>>
    /\ min_val' = IF Data(line'.tokens) = <<>> THEN min_val
                  ELSE SeqMin(Data(line'.tokens))
    /\ UNCHANGED <<settings, baud, timeout, rows, cols, max_val, clarity,
                   min_colour, max_colour, ser, closes, mapping, window,
                   key, npoll, discarded, stdout>>
\* lines 135-140 with plot_data (lines 148-180)
PlotData ==
    /\ pc = "plot"
    /\ nread < MaxReads
    /\ \E r \in ReadOutcomes :
         LET res == PlotResult(r)
         IN /\ nread' = nread + 1
            /\ nplot' = nplot + 1
            /\ line' = r
            /\ last' = IF res.raised = "none" THEN "ok" ELSE res.raised
            /\ IF res.raised = "none"
               THEN /\ frame' = res.image
                    /\ nshown' = nshown + 1
                    /\ stderr' = res.msgs
                    /\ pc' = "poll" /\ exc' = exc
               ELSE IF Recoverable(res.raised)
               THEN /\ stderr' = Append(res.msgs, res.raised)
                    /\ pc' = "poll" /\ exc' = exc
                    /\ UNCHANGED <<frame, nshown>>
               ELSE /\ stderr' = res.msgs
                    /\ pc' = "finally" /\ exc' = res.raised
                    /\ UNCHANGED <<frame, nshown>>
    /\ UNCHANGED <<config, ser, closes, mapping, window, key, npoll,
                   discarded, stdout>>

\* lines 143-146: the finally clause of the try block
Finally ==
    /\ pc = "finally"
    /\ ser' = "closed"
    /\ closes' = closes + 1
    /\ stdout' = [msg |-> "Serial port closed", poll |-> npoll]
    /\ window' = "destroyed"
    /\ pc' = "done"
    /\ UNCHANGED <<config, mapping, key, npoll, nread, discarded, nplot,
                   line, last, frame, nshown, stderr, exc>>

Next ==
    \/ ResolveNumbers
    \/ ResolveColours
    \/ ResolveClarity
    \/ OpenSerial
    \/ GridSetup
    \/ DiscardInitialLine
    \/ CreateWindow
    \/ CheckColours
    \/ PollKey
    \/ PauseLoop
    \/ PlotData
    \/ Finally

Spec == Init /\ [][Next]_vars

----------------------------------------------------------------------------
(* The run on a stream that delivers no data: every readline times out and *)
(* returns the empty line. The counters stop counting at MaxReads, so that *)
(* the loop can turn for ever in finitely many states.                     *)

QuietRead == [err |-> "none", tokens |-> <<"">>]

Counted(n) == IF n < MaxReads THEN n + 1 ELSE n

\* lines 99-103, the read returning the empty line
QuietDiscard ==
    /\ DiscardInitialLine
    /\ discarded' = <<"ok">>

\* lines 119-124
QuietPollKey ==
    /\ pc = "poll"
    /\ \E k \in Keys :
         /\ key' = k
         /\ npoll' = Counted(npoll)
         /\ IF LowByte(k) \in EXIT_KEYS
            THEN /\ stdout' = [msg |-> "User quit application",
                               poll |-> npoll']
                 /\ pc' = "finally"
            ELSE IF LowByte(k) \in PAUSE_KEYS
            THEN /\ stdout' = [msg |-> "User paused", poll |-> npoll']
                 /\ pc' = "pause"
            ELSE /\ stdout' = stdout
                 /\ pc' = "plot"
    /\ UNCHANGED <<config, ser, closes, mapping, window, nread, discarded,
                   nplot, line, last, frame, nshown, stderr, exc>>

\* lines 135-140 with plot_data (lines 148-180), the read returning the
\* empty line
QuietPlotData ==
    /\ pc = "plot"
    /\ LET res == PlotResult(QuietRead)
       IN /\ nread' = Counted(nread)
          /\ nplot' = Counted(nplot)
          /\ line' = QuietRead
          /\ last' = IF res.raised = "none" THEN "ok" ELSE res.raised
          /\ IF res.raised = "none"
             THEN /\ frame' = res.image
                  /\ nshown' = Counted(nshown)
                  /\ stderr' = res.msgs
                  /\ pc' = "poll" /\ exc' = exc
             ELSE IF Recoverable(res.raised)
             THEN /\ stderr' = Append(res.msgs, res.raised)
                  /\ pc' = "poll" /\ exc' = exc
                  /\ UNCHANGED <<frame, nshown>>
             ELSE /\ stderr' = res.msgs
                  /\ pc' = "finally" /\ exc' = res.raised
                  /\ UNCHANGED <<frame, nshown>>
    /\ UNCHANGED <<config, ser, closes, mapping, window, key, npoll,
                   discarded, stdout>>

NextQuiet ==
    \/ ResolveNumbers
    \/ ResolveColours
    \/ ResolveClarity
    \/ OpenSerial
    \/ GridSetup
    \/ QuietDiscard
    \/ CreateWindow
    \/ CheckColours
    \/ QuietPollKey
    \/ PauseLoop
    \/ QuietPlotData
    \/ Finally

\* the program is one thread whose every step ends: waitKey after its
\* milliseconds, readline after the timeout of the port
SpecQuiet == Init /\ [][NextQuiet]_vars /\ WF_vars(NextQuiet)

----------------------------------------------------------------------------
(* Properties *)

LoopStates == {"poll", "pause", "plot"}

\* C1: when an execution of Grid(ser, ...) has ended, by return or by an
\* exception, ser.close() has been called exactly once.
C1_ClosedExactlyOnce ==
    (pc = "done" /\ ser # "unopened") => closes = 1

\* C2: after a pause key the renderer is paused until a later key poll
\* returns a pause key: as long as no key has been polled since the pause
\* was announced, plot_data is not called, no frame is shown, and the
\* renderer does not resume.
C2_PausedUntilNextPauseKey ==
    [][(stdout.msg = "User paused" /\ stdout.poll = npoll /\ npoll' = npoll)
         => /\ pc' \in {"pause", "finally"}
            /\ nplot' = nplot
            /\ nshown' = nshown]_vars

\* C3: once a key poll has returned q, Q or Escape, no line is read, no
\* frame is shown and no key is polled any more, the renderer is on its way
\* out, and when it is out the stream is closed and the window destroyed.
C3_QuitKeys == {113, 81, 27}

C3_QuitTerminates ==
    /\ [](LowByte(key) \in C3_QuitKeys =>
            /\ pc \in {"finally", "done"}
            /\ exc = "none"
            /\ pc = "done" =>
                 ser = "closed" /\ closes = 1 /\ window = "destroyed")
    /\ [][LowByte(key) \in C3_QuitKeys =>
            /\ nread' = nread
            /\ nplot' = nplot
            /\ nshown' = nshown
            /\ npoll' = npoll]_vars

C3_Witness ==
    /\ pc = "done" /\ key = 81 /\ nshown > 0
    /\ ser = "closed" /\ window = "destroyed"

\* C4: a call of plot_data that raises UnicodeDecodeError or ValueError
\* leaves the renderer running: the error is printed to the error stream,
\* the stream stays open, nothing propagates, and the loop is back at its
\* key poll.
C4_SkipErrors == {"UnicodeDecodeError", "ValueError"}

C4_RecoverableErrorContinues ==
    [][(nplot' = nplot + 1 /\ last' \in C4_SkipErrors)
         => /\ pc' = "poll"
            /\ ser' = "open" /\ closes' = 0 /\ window' = "open"
            /\ exc' = "none"
            /\ stderr' # <<>> /\ stderr'[Len(stderr')] = last']_vars

C4_Witness ==
    /\ last = "ValueError" /\ pc = "plot" /\ nplot = 1 /\ npoll = 2
    /\ ser = "open"

\* C5: when plot_data raises anything but UnicodeDecodeError or ValueError,
\* the loop ends with that exception propagating, no line is read and no
\* frame shown after it, and when it has propagated the stream is closed
\* and the window destroyed.
C5_Fatal == last \notin {"none", "ok", "UnicodeDecodeError", "ValueError"}

C5_OtherExceptionPropagates ==
    /\ [](C5_Fatal =>
            /\ pc \in {"finally", "done"}
            /\ exc = last
            /\ pc = "done" =>
                 ser = "closed" /\ closes = 1 /\ window = "destroyed")
    /\ [][C5_Fatal =>
            /\ nread' = nread
            /\ nplot' = nplot
            /\ nshown' = nshown]_vars

C5_Witness ==
    /\ last = "SerialException" /\ exc = "SerialException"
    /\ pc = "done" /\ nshown = 1 /\ closes = 1

\* C6: a call of plot_data shows a frame only if the values parsed from its
\* line number rows x cols; a line with any other number of values shows
\* nothing, leaves the frame in the window as it was, and the loop goes on.
C6_FrameOnlyForFullLine ==
    [][nplot' = nplot + 1 =>
         /\ nshown' # nshown => Len(Data(line'.tokens)) = rows * cols
         /\ (line'.err = "none" /\ Len(Data(line'.tokens)) # rows * cols)
              => /\ nshown' = nshown
                 /\ frame' = frame
                 /\ pc' = "poll"
                 /\ exc' = "none"]_vars

C6_Witness ==
    /\ rows = 2 /\ cols = 2
    /\ line.tokens = <<"0", "50", "100">>
    /\ last = "ValueError"
    /\ nshown = 1 /\ frame # NoFrame
    /\ pc = "poll"

\* C7: the loop is entered only after the initial discard: a first read
\* that succeeds is the only read before the first call of plot_data, and a
\* first read that raises a decode error is followed by exactly one more
\* read, whose success lets construction go on.
C7_InitialDiscard ==
    /\ pc \in LoopStates =>
         discarded \in {<<"ok">>, <<"UnicodeDecodeError", "ok">>}
    /\ (discarded # <<>> /\ discarded[1] = "ok") =>
         /\ Len(discarded) = 1
         /\ nplot = 0 => nread = 1
    /\ (discarded # <<>> /\ discarded[1] = "UnicodeDecodeError") =>
         /\ Len(discarded) = 2
         /\ nplot = 0 => nread = 2
         /\ discarded[2] = "ok" =>
              ~(pc = "done" /\ npoll = 0 /\ exc \in ReadErrors)

C7_Witness ==
    /\ discarded = <<"UnicodeDecodeError", "ok">>
    /\ nshown = 1 /\ nread = 3

\* C8: float colours select a grayscale mode (DEFAULT for 0.0 and 1.0, GREY
\* otherwise) and, when they differ, construction gets to the frame loop;
\* colour triples select the COLOUR mode.
C8_FloatColoursAreGrey ==
    /\ (mode # UNSET /\ min_colour.kind = "float"
          /\ max_colour.kind = "float") =>
         /\ mode = IF min_colour.v = <<0>> /\ max_colour.v = <<10>>
                   THEN DEFAULT ELSE GREY
         /\ ~PyEq(min_colour, max_colour) =>
              ~(npoll = 0 /\ exc \in {"TypeError", "Exception",
                                      "AssertionError", "ValueError"})
    /\ (mode # UNSET /\ min_colour.kind = "tuple" /\ Len(min_colour.v) = 3
          /\ max_colour.kind = "tuple" /\ Len(max_colour.v) = 3) =>
         mode = COLOUR

\* C9: after the resolver has handled the colour fields, neither colour is
\* the raw input string: a min_colour that does not evaluate is black, and
\* a max_colour that does not evaluate is white in the shape of min_colour.
C9_ColourFallbacks ==
    pc \in {"clarity", "open", "grid"} =>
      /\ min_colour.kind # "str"
      /\ max_colour.kind # "str"
      /\ ~Eval(settings.min_colour).ok => min_colour = Float(0)
      /\ ~Eval(settings.max_colour).ok =>
           max_colour = IF IsScalar(min_colour) THEN Float(10)
                        ELSE Tuple(<<10, 10, 10>>)

\* C10: with equal colours, or a tuple colour that has not exactly three
\* components, construction fails before the frame loop, nothing is shown,
\* and the stream is closed when the error has propagated.
C10_BadColours ==
    \/ PyEq(min_colour, max_colour)
    \/ min_colour.kind = "tuple" /\ Len(min_colour.v) # 3
    \/ max_colour.kind = "tuple" /\ Len(max_colour.v) # 3

C10_BadColoursFailClosed ==
    (mode # UNSET /\ min_colour.kind # "str" /\ C10_BadColours) =>
      /\ pc \notin LoopStates
      /\ nshown = 0
      /\ pc = "done" => (exc # "none" /\ closes = 1 /\ ser = "closed")

\* C11: in the resolver a baud, timeout or clarity field that is not a
\* number becomes 9600, 5 seconds or 10 and resolution goes on to opening
\* the port; a rows, cols, min_val or max_val field that is not a number
\* ends the program with a ValueError while the port is still unopened.
C11_NotInt == {"", "x", "lo", "fast", "ten", "2.0", "0.1"}

C11_NotFloat == {"", "x", "lo", "fast", "ten"}

C11_FatalField ==
    \/ settings.rows \in C11_NotInt
    \/ settings.cols \in C11_NotInt
    \/ settings.min_val \in C11_NotFloat
    \/ settings.max_val \in C11_NotFloat

C11_NumericFallbacks ==
    pc # "numbers" =>
      /\ settings.baud \in C11_NotInt => baud = 9600
      /\ settings.timeout \in C11_NotFloat => timeout = 50
      /\ (settings.clarity \in C11_NotInt /\ ~C11_FatalField
            /\ pc \notin {"colours", "clarity"}) => clarity = 10
      /\ C11_FatalField =>
           pc = "done" /\ exc = "ValueError" /\ ser = "unopened"
      /\ ~C11_FatalField =>
           ~(pc = "done" /\ exc = "ValueError" /\ ser = "unopened")

C11_Witness ==
    /\ settings.baud = "fast" /\ settings.timeout = ""
    /\ settings.clarity = "ten"
    /\ baud = 9600 /\ timeout = 50 /\ clarity = 10
    /\ pc = "grid" /\ ser = "open"

\* C12: a frame on display comes from a grid of rows rows and cols
\* columns, and is an image of rows x clarity rows (its height) and
\* cols x clarity columns (its width).
C12_ImageDimensions ==
    frame # NoFrame =>
      /\ frame.grid = <<rows, cols>>
      /\ frame.height = rows * clarity
      /\ frame.width = cols * clarity

\* C13: with min_val < max_val, in the frame of a line just shown a sample
\* equal to min_val is normalised to 0, a sample equal to max_val to 1, and
\* a sample is normalised to a value outside [0, 1] exactly when it is
\* outside [min_val, max_val]. (n[1] / n[2] is the normalised value; its
\* denominator max_val is positive in every configuration checked.)
C13_NormalisedAnchors ==
    (last = "ok" /\ min_val < max_val) =>
      \A i \in 1..Len(frame.data) :
        LET v == Data(line.tokens)[i]
            n == frame.data[i]
        IN /\ n[2] > 0
           /\ v = min_val => n[1] = 0
           /\ v = max_val => n[1] = n[2]
           /\ (n[1] < 0 \/ n[1] > n[2]) <=> (v < min_val \/ v > max_val)

\* C14: a line with a sample below min_val or above max_val gets its
\* warning and is not rejected: plot_data returns to the loop, and when the
\* line has rows x cols values its frame is shown with the sample left
\* beyond the value of min_val (0) or of max_val, not clamped to it.
\* (Colours as documented: max_colour of the type of min_colour.)
C14_ColoursOfOneType == IsScalar(min_colour) = IsScalar(max_colour)

RECURSIVE C15_Values(_)
C15_Values(t) ==
    IF t = <<>> THEN <<>>
    ELSE (IF ParseFloat(Head(t)).ok
          THEN <<ParseFloat(Head(t)).val>> ELSE <<>>)
         \o C15_Values(Tail(t))

C16_AfterSetup ==
    pc \in {"discard", "window", "check", "finally"} \cup LoopStates

C16_ConfigurationFixed ==
    [][C16_AfterSetup =>
         UNCHANGED <<rows, cols, min_val, max_val, clarity, min_colour,
                     max_colour, scale, mode, map_scale, map_offset>>]_vars

C16_Witness ==
    /\ nplot = 2 /\ nshown = 1 /\ last = "ValueError" /\ pc = "done"
    /\ LowByte(key) \in PAUSE_KEYS \cup EXIT_KEYS
    /\ mode = COLOUR /\ map_scale = [shape |-> 3, v |-> <<10, 10, 10>>]
    /\ scale = <<clarity * rows, clarity * cols>>

\* C17: every turn of the main loop whose key poll returns no quit key
\* calls plot_data once, and that call makes the turn's only read: whenever
\* the loop is at its poll or over, the calls of plot_data number the
\* non-quit polls and the reads after the initial discard number the same;
\* in between, the call of the turn under way is the one still missing.
C17_NonQuitPolls ==
    npoll - (IF LowByte(key) \in C3_QuitKeys THEN 1 ELSE 0)

C18_QuietStreamQuits ==
    /\ []((npoll > 0 /\ pc \in {"finally", "done"}) =>
            (LowByte(key) \in C3_QuitKeys /\ exc = "none"))
    /\ [](nshown = 0 /\ (nplot > 0 => last = "ValueError"))
    /\ (pc \in {"pause", "plot"}) ~> (pc = "poll")
    /\ (LowByte(key) \in C3_QuitKeys) ~>
         (pc = "done" /\ ser = "closed" /\ closes = 1
            /\ window = "destroyed")

C18_Witness ==
    /\ pc = "done" /\ key = 27 /\ ser = "closed"
    /\ nplot >= 2 /\ line = QuietRead /\ last = "ValueError"
    /\ nshown = 0

====
